---- MODULE Spec2Model ----
(***************************************************************************)
(* Model of fastdeploy/vision/ocr/ppocr/det_preprocessor.cc: the sizing    *)
(* policies (cal_dst_size, the two OcrDetectorGetInfo overloads), and the  *)
(* batch pipeline DBDetectorPreprocessor::Apply with ResizeImage.          *)
(*                                                                         *)
(* The source computes its scaling ratios in IEEE-754 binary32 (`float`).  *)
(* The operators F32* below compute those operations bit-exactly on        *)
(* integers: a float is a record [k, s, m, e] of kind, sign, integer       *)
(* significand and exponent, with value s * m * 2^e.                       *)
(***************************************************************************)
EXTENDS Integers, Sequences, FiniteSets

\* ------------------------------------------------------------------ bounds

\* Image edges 1..MaxDim are enumerated exhaustively by the sizing
\* specification (together with the larger edges of BigDims).
MaxDim == 40

\* Largest batch size handed to Apply.
MaxBatch == 2

\* ------------------------------------------------------- machine arithmetic

\* `int` is 32 bits wide.
IntMax == 1073741823 + 1073741824
IntMin == (-IntMax) - 1

\* Significand width of binary32, the type of every ratio in the source.
F32Precision == 24

\* F applied to the value of e, with e evaluated once.
Bind(e, F(_)) == CHOOSE r \in {F(x) : x \in {e}} : TRUE

Max(a, b) == IF a >= b THEN a ELSE b
Min(a, b) == IF a <= b THEN a ELSE b
Abs(a) == IF a < 0 THEN -a ELSE a
Sign(a) == IF a < 0 THEN -1 ELSE 1

\* C++ integer division truncates toward zero.
CDiv(a, b) == Sign(a) * Sign(b) * (Abs(a) \div Abs(b))

\* int + int for a non-negative b; a sum past INT_MAX is signed overflow,
\* which the non-trapping builds carry out modulo 2^32.
Add32(a, b) ==
  IF a > IntMax - b THEN ((a - IntMax) + (b - 1)) + IntMin ELSE a + b

\* --------------------------------------------------------- binary32 values

F32NaN == [k |-> "nan", s |-> 1, m |-> 0, e |-> 0]
F32Inf(sgn) == [k |-> "inf", s |-> sgn, m |-> 0, e |-> 0]
F32Zero == [k |-> "fin", s |-> 1, m |-> 0, e |-> 0]
F32Fin(sgn, me) == [k |-> "fin", s |-> sgn, m |-> me[1], e |-> me[2]]

\* The literal 1.f
F32One == [k |-> "fin", s |-> 1, m |-> 2^(F32Precision - 1),
           e |-> -(F32Precision - 1)]

\* Number of bits of a positive integer.
RECURSIVE BitLen(_)
BitLen(n) == IF n = 0 THEN 0 ELSE 1 + BitLen(n \div 2)

\* Round-to-nearest, ties-to-even of (kept + rem / 2^s) * 2^ex to a
\* significand of F32Precision bits; rem < 2^s.
RoundNearestEven(kept, twiceRem, unit, ex) ==
  LET up == twiceRem > unit \/ (twiceRem = unit /\ kept % 2 = 1)
      m1 == IF up THEN kept + 1 ELSE kept
  IN IF m1 = 2^F32Precision THEN <<2^(F32Precision - 1), ex + 1>>
     ELSE <<m1, ex>>

\* Long division: n more quotient bits of (m + r/Q).
RECURSIVE DivBits(_, _, _, _)
DivBits(m, r, Q, n) ==
  IF n = 0 THEN <<m, r>>
  ELSE IF 2 * r >= Q THEN DivBits(2 * m + 1, 2 * r - Q, Q, n - 1)
       ELSE DivBits(2 * m, 2 * r, Q, n - 1)

\* Smallest k with p * 2^k >= q.
RECURSIVE ShiftUp(_, _)
ShiftUp(p, q) == IF p >= q THEN 0 ELSE 1 + ShiftUp(2 * p, q)

\* Largest k with q * 2^k <= p  (p >= q).
RECURSIVE ShiftDown(_, _)
ShiftDown(p, q) == IF 2 * q > p THEN 0 ELSE 1 + ShiftDown(p, 2 * q)

\* |float(p) / float(q)| for positive integers p, q below 2^24 (so that
\* float(p) and float(q) are exact): the correctly rounded quotient.
DivMag(p, q) ==
  LET ku == ShiftUp(p, q)
      kd == IF ku = 0 THEN ShiftDown(p, q) ELSE 0
      P == p * 2^ku
      Q == q * 2^kd
  IN Bind(DivBits(1, P - Q, Q, F32Precision - 1),
          LAMBDA bits : RoundNearestEven(bits[1], 2 * bits[2], Q,
                                         (kd - ku) - (F32Precision - 1)))

\* (float)p / (float)q
F32Div(p, q) ==
  IF q = 0 THEN (IF p = 0 THEN F32NaN ELSE F32Inf(Sign(p)))
  ELSE IF p = 0 THEN F32Zero
  ELSE F32Fin(Sign(p) * Sign(q), DivMag(Abs(p), Abs(q)))

\* |f * float(c)| for a significand m < 2^24 and 0 < c < 2^12, computed
\* in two 12-bit halves so that no intermediate exceeds 31 bits.
MulMag(m, ex, c) ==
  LET half == 2^(F32Precision \div 2)
      A0 == (m \div half) * c
      B0 == (m % half) * c
      A == A0 + (B0 \div half)
      B == B0 % half
      L == IF A = 0 THEN BitLen(B) ELSE BitLen(A) + (F32Precision \div 2)
      s == L - F32Precision
  IN IF s <= 0 THEN <<A * half + B, ex>>
     ELSE IF s <= F32Precision \div 2
          THEN RoundNearestEven(A * 2^((F32Precision \div 2) - s) + (B \div 2^s),
                                2 * (B % 2^s), 2^s, ex + s)
          ELSE LET t == s - (F32Precision \div 2)
               IN RoundNearestEven(A \div 2^t,
                                   2 * ((A % 2^t) * half + B), 2^s, ex + s)

\* f * (float)c
F32MulInt(f, c) ==
  IF f.k = "nan" THEN F32NaN
  ELSE IF f.k = "inf" THEN (IF c = 0 THEN F32NaN ELSE F32Inf(f.s * Sign(c)))
  ELSE IF f.m = 0 \/ c = 0 THEN F32Zero
  ELSE F32Fin(f.s * Sign(c), MulMag(f.m, f.e, Abs(c)))

\* f > g; both finite non-zero operands are quotients (normalised
\* significands), and every comparison with a NaN is false.
F32Mag(f) == IF f.m = 0 THEN <<0, 0>> ELSE <<f.e + BitLen(f.m), f.m * 2^(F32Precision - BitLen(f.m))>>
MagGt(a, b) == a[1] > b[1] \/ (a[1] = b[1] /\ a[2] > b[2])
F32Gt(f, g) ==
  IF f.k = "nan" \/ g.k = "nan" THEN FALSE
  ELSE IF f.k = "inf" THEN (f.s = 1 /\ ~(g.k = "inf" /\ g.s = 1))
  ELSE IF g.k = "inf" THEN g.s = -1
  ELSE LET fz == f.m = 0
           gz == g.m = 0
       IN IF fz THEN (~gz /\ g.s = -1)
          ELSE IF gz THEN f.s = 1
          ELSE IF f.s # g.s THEN f.s = 1
          ELSE IF f.s = 1 THEN MagGt(F32Mag(f), F32Mag(g))
          ELSE MagGt(F32Mag(g), F32Mag(f))

\* floor and ceiling of the magnitude m * 2^e, for values below 2^31.
FloorMag(m, ex) ==
  IF ex >= 0 THEN m * 2^ex
  ELSE IF -ex >= F32Precision THEN 0
  ELSE m \div 2^(-ex)
CeilMag(m, ex) ==
  IF ex >= 0 THEN m * 2^ex
  ELSE IF -ex >= F32Precision THEN (IF m > 0 THEN 1 ELSE 0)
  ELSE (m + 2^(-ex) - 1) \div 2^(-ex)

\* Whether the value of a float lies within the range of int.
F32InIntRange(f) ==
  f.k = "fin" /\ (f.m = 0 \/ f.e + BitLen(f.m) <= 31 - 1)

\* ------------------------------------------------------------------- state

VARIABLES
  static_shape_infer_,   \* configuration: fixed-shape mode
  det_image_shape_,      \* configuration: <<channels, height, width>>
  longside_size_,        \* configuration: long-edge threshold
  shortside_size_,       \* configuration: short-edge threshold
  disable_normalize_,    \* configuration flag
  disable_permute_,      \* configuration flag
  batch_det_img_info_,   \* member: per-image {w, h, target_w, target_h}
  resize_op_,            \* member: the shared Resize operator's parameters
  pad_op_,               \* member: the shared Pad operator's parameters
  ub_cast,               \* what an out-of-range float -> int conversion yields
  call,                  \* the last call made: its operation, inputs, result
  mats,                  \* the caller's image buffers after the last Apply
  trace,                 \* primitive invocations made by the last Apply
  outputs,               \* the output descriptors of the last Apply
  fresh                  \* the same Apply carried out by a new instance

vars == <<static_shape_infer_, det_image_shape_, longside_size_,
          shortside_size_, disable_normalize_, disable_permute_,
          batch_det_img_info_, resize_op_, pad_op_, ub_cast, call, mats,
          trace, outputs, fresh>>

config == <<static_shape_infer_, det_image_shape_, longside_size_,
            shortside_size_, disable_normalize_, disable_permute_, ub_cast>>

\* --------------------------------------------------------- float -> int

\* int(f) of a float after std::ceil. Converting a NaN, an infinity or a
\* value outside the range of int is undefined: the build decides (ub_cast).
CeilToInt(f) ==
  IF ~F32InIntRange(f) THEN ub_cast
  ELSE IF f.s = 1 THEN CeilMag(f.m, f.e) ELSE -FloorMag(f.m, f.e)

\* int(f): truncation toward zero.
TruncToInt(f) ==
  IF ~F32InIntRange(f) THEN ub_cast
  ELSE f.s * FloorMag(f.m, f.e)

\* ----------------------------------------------------------- cal_dst_size

\* The alignment base cal_dst_size defaults to.
DefaultBase == 32

\* v = (v + base - 1) / base * base; v = std::max(v, base)
\* Faults of the alignment step: the rounding left out, and rounding to the
\* nearest multiple (as the single-threshold policy does) instead of up.
AlignUpOmitted(v, base) == Max(v, base)
AlignUpNearest(v, base) == Max(CDiv(Add32(v, base \div 2), base) * base, base)
AlignUp(v, base) == Max(CDiv(Add32(v, base - 1), base) * base, base)

\* The pair <<dst_height, dst_width>>.
cal_dst_size(src_height, src_width, long_min, short_min, base) ==
  LET base_ratio == F32Div(long_min, short_min)
      swap == ~(src_height > src_width)
      cur_long == IF src_height > src_width THEN src_height ELSE src_width
      cur_short == IF src_height > src_width THEN src_width ELSE src_height
      cur_ratio == F32Div(cur_long, cur_short)
  IN IF cur_long > long_min /\ cur_short > short_min
     THEN <<AlignUp(IF swap THEN cur_short ELSE cur_long, base),
            AlignUp(IF swap THEN cur_long ELSE cur_short, base)>>
     ELSE IF F32Gt(cur_ratio, base_ratio)
     THEN LET ratio == F32Div(short_min, cur_short)
              new_long == CeilToInt(F32MulInt(ratio, cur_long))
          IN <<AlignUp(IF swap THEN short_min ELSE new_long, base),
               AlignUp(IF swap THEN new_long ELSE short_min, base)>>
     ELSE LET ratio == F32Div(long_min, cur_long)
              new_short == CeilToInt(F32MulInt(ratio, cur_short))
          IN <<AlignUp(IF swap THEN new_short ELSE long_min, base),
               AlignUp(IF swap THEN long_min ELSE new_short, base)>>

\* ----------------------------------------------------- OcrDetectorGetInfo

\* det_image_shape_[1] and det_image_shape_[2] of the source (0-based).
StaticHeight == det_image_shape_[2]
StaticWidth == det_image_shape_[3]

\* std::round(float(v) / 32) * 32 as an int. float(v) / 32 is exact (a
\* division by a power of two), and std::round rounds halves away from zero.
RoundTo32(v) == Sign(v) * ((Abs(v) + 16) \div 32) * 32

\* OcrDetectorGetInfo(FDMat* img, int max_size_len): {w, h, resize_w, resize_h}
OcrDetectorGetInfoMaxLen(img, max_size_len) ==
  LET w == img.w
      h == img.h
      max_wh == IF w >= h THEN w ELSE h
      ratio == IF max_wh > max_size_len
               THEN (IF h > w THEN F32Div(max_size_len, h)
                     ELSE F32Div(max_size_len, w))
               ELSE F32One
      resize_h == TruncToInt(F32MulInt(ratio, h))
      resize_w == TruncToInt(F32MulInt(ratio, w))
  IN IF static_shape_infer_ THEN <<w, h, StaticWidth, StaticHeight>>
     ELSE <<w, h, Max(RoundTo32(resize_w), 32), Max(RoundTo32(resize_h), 32)>>

\* Fault: the fixed shape read as <<channels, width, height>>.
OcrDetectorGetInfoTransposed(img) ==
  <<img.w, img.h, StaticHeight, StaticWidth>>

\* OcrDetectorGetInfo(FDMat* img): {w, h, target_w, target_h}
OcrDetectorGetInfo(img) ==
  LET w == img.w
      h == img.h
  IN IF static_shape_infer_ THEN <<w, h, StaticWidth, StaticHeight>>
     ELSE Bind(cal_dst_size(h, w, longside_size_, shortside_size_,
                            DefaultBase),
               LAMBDA dst_size : <<w, h, dst_size[2], dst_size[1]>>)

\* ---------------------------------------------------- external primitives

\* An FDMat, as far as this file reads it: Width() and Height().
Image(w, h) == [w |-> w, h |-> h]

\* Resize::operator(): the image takes the operator's width and height.
ResizeMat(mat, op) == [w |-> op.width, h |-> op.height]

\* Pad::operator(): the image grows by the operator's four paddings.
PadMat(mat, op) ==
  [w |-> mat.w + op.left + op.right, h |-> mat.h + op.top + op.bottom]

\* FDMatBatch::Tensor(): the batch buffer's shape, taken from its images.
TensorShape(ms, permuted) ==
  [n |-> Len(ms), h |-> ms[1].h, w |-> ms[1].w,
   layout |-> IF permuted THEN "NCHW" ELSE "NHWC"]

\* --------------------------------------------------------- the constructor

\* resize_op_ = Resize(-1, -1); pad_op_ = Pad(0, 0, 0, 0, {0, 0, 0})
NewResizeOp == [width |-> -1, height |-> -1]
NewPadOp == [top |-> 0, bottom |-> 0, left |-> 0, right |-> 0]

\* ------------------------------------------------------------- ResizeImage

\* st carries what ResizeImage reads and writes: the two shared operators,
\* the image buffers and the invocations made so far; img is the index of
\* the image in the batch.
\* Fault: the paddings of the two axes exchanged.
ResizeImagePadTransposed(st, img, resize_w, resize_h, max_resize_w, max_resize_h) ==
  LET pad == [top |-> 0, bottom |-> max_resize_w - resize_w,
              left |-> 0, right |-> max_resize_h - resize_h]
  IN [st EXCEPT
        !.resize_op_ = [width |-> resize_w, height |-> resize_h],
        !.pad_op_ = pad,
        !.mats[img] = PadMat(Image(resize_w, resize_h), pad),
        !.trace = @ \o <<[op |-> "resize", img |-> img, width |-> resize_w,
                          height |-> resize_h],
                         [op |-> "pad", img |-> img, top |-> pad.top,
                          bottom |-> pad.bottom, left |-> pad.left,
                          right |-> pad.right]>>]

\* Fault: the pad operator invoked before its paddings are set, so that it
\* pads by what the previous invocation left in pad_op_.
ResizeImagePadStale(st, img, resize_w, resize_h, max_resize_w, max_resize_h) ==
  [st EXCEPT
     !.resize_op_ = [width |-> resize_w, height |-> resize_h],
     !.pad_op_ = [top |-> 0, bottom |-> max_resize_h - resize_h,
                  left |-> 0, right |-> max_resize_w - resize_w],
     !.mats[img] = PadMat(Image(resize_w, resize_h), st.pad_op_),
     !.trace = @ \o <<[op |-> "resize", img |-> img, width |-> resize_w,
                       height |-> resize_h],
                      [op |-> "pad", img |-> img, top |-> st.pad_op_.top,
                       bottom |-> st.pad_op_.bottom,
                       left |-> st.pad_op_.left,
                       right |-> st.pad_op_.right]>>]

ResizeImage(st, img, resize_w, resize_h, max_resize_w, max_resize_h) ==
  LET \* resize_op_->SetWidthAndHeight(resize_w, resize_h); (*resize_op_)(img)
      s1 == [st EXCEPT !.resize_op_ = [width |-> resize_w,
                                       height |-> resize_h]]
      s2 == [s1 EXCEPT
               !.mats[img] = ResizeMat(s1.mats[img], s1.resize_op_),
               !.trace = Append(s1.trace,
                                [op |-> "resize", img |-> img,
                                 width |-> s1.resize_op_.width,
                                 height |-> s1.resize_op_.height])]
      \* pad_op_->SetPaddingSize(0, max_h - h, 0, max_w - w); (*pad_op_)(img)
      s3 == [s2 EXCEPT !.pad_op_ = [top |-> 0,
                                    bottom |-> max_resize_h - resize_h,
                                    left |-> 0,
                                    right |-> max_resize_w - resize_w]]
  IN [s3 EXCEPT
        !.mats[img] = PadMat(s3.mats[img], s3.pad_op_),
        !.trace = Append(s3.trace,
                         [op |-> "pad", img |-> img,
                          top |-> s3.pad_op_.top,
                          bottom |-> s3.pad_op_.bottom,
                          left |-> s3.pad_op_.left,
                          right |-> s3.pad_op_.right])]

\* ------------------------------------------------------------------- Apply

\* std::vector::clear and std::vector::resize on batch_det_img_info_; new
\* elements are value-initialised arrays.
VecClear(v) == <<>>
VecResize(v, n) ==
  [i \in 1..n |-> IF i <= Len(v) THEN v[i] ELSE <<0, 0, 0, 0>>]

\* One iteration of the first loop: resolve image i, fold the maximum.
\* Fault: the running maximum overwritten by the current target.
ResolveStepNoMax(acc, mat, i) ==
  Bind(OcrDetectorGetInfo(mat),
       LAMBDA info : [info |-> [acc.info EXCEPT ![i] = info],
                      max_resize_w |-> info[3],
                      max_resize_h |-> info[4]])

ResolveStep(acc, mat, i) ==
  Bind(OcrDetectorGetInfo(mat),
       LAMBDA info : [info |-> [acc.info EXCEPT ![i] = info],
                      max_resize_w |-> Max(acc.max_resize_w, info[3]),
                      max_resize_h |-> Max(acc.max_resize_h, info[4])])

RECURSIVE ResolveLoop(_, _, _)
ResolveLoop(acc, image_batch, i) ==
  IF i > Len(image_batch) THEN acc
  ELSE Bind(ResolveStep(acc, image_batch[i], i),
            LAMBDA a : ResolveLoop(a, image_batch, i + 1))

\* The second loop: resize and pad every image, in batch order.
RECURSIVE PadLoop(_, _, _)
PadLoop(st, r, i) ==
  IF i > Len(st.mats) THEN st
  ELSE Bind(ResizeImage(st, i, r.info[i][3], r.info[i][4],
                        r.max_resize_w, r.max_resize_h),
            LAMBDA s : PadLoop(s, r, i + 1))

\* if (!disable_normalize_ && !disable_permute_) (*normalize_permute_op_)(batch)
NormalizePermuteStep(tr) ==
  IF ~disable_normalize_ /\ ~disable_permute_
  THEN Append(tr, [op |-> "normalize_permute"])
  ELSE tr

\* Apply on an instance whose members hold info0, resize0 and pad0.
ApplyResult(r, st, tr) ==
  [batch_det_img_info_ |-> r.info,
   max_resize_w |-> r.max_resize_w,
   max_resize_h |-> r.max_resize_h,
   resize_op_ |-> st.resize_op_,
   pad_op_ |-> st.pad_op_,
   mats |-> st.mats,
   trace |-> tr,
   outputs |-> <<TensorShape(st.mats, Len(tr) > Len(st.trace))>>,
   ret |-> TRUE]

ApplyPipeline(r, resize0, pad0, image_batch) ==
  Bind(PadLoop([resize_op_ |-> resize0, pad_op_ |-> pad0,
                mats |-> image_batch, trace |-> <<>>], r, 1),
       LAMBDA st : ApplyResult(r, st, NormalizePermuteStep(st.trace)))

ApplyRun(info0, resize0, pad0, image_batch) ==
  Bind(ResolveLoop([info |-> VecResize(VecClear(info0), Len(image_batch)),
                    max_resize_w |-> 0, max_resize_h |-> 0],
                   image_batch, 1),
       LAMBDA r : ApplyPipeline(r, resize0, pad0, image_batch))

\* What of a run the caller can observe.
Observed(run) ==
  [info |-> run.batch_det_img_info_,
   max_resize_w |-> run.max_resize_w, max_resize_h |-> run.max_resize_h,
   mats |-> run.mats, trace |-> run.trace, outputs |-> run.outputs,
   ret |-> run.ret]

\* bool DBDetectorPreprocessor::Apply(FDMatBatch*, std::vector<FDTensor>*)
Apply(image_batch) ==
  \E run \in {ApplyRun(batch_det_img_info_, resize_op_, pad_op_,
                       image_batch)} :
     /\ batch_det_img_info_' = run.batch_det_img_info_
     /\ resize_op_' = run.resize_op_
     /\ pad_op_' = run.pad_op_
     /\ mats' = run.mats
     /\ trace' = run.trace
     /\ outputs' = run.outputs
     /\ call' = [op |-> "Apply", batch |-> image_batch, ret |-> run.ret,
                 max_resize_w |-> run.max_resize_w,
                 max_resize_h |-> run.max_resize_h,
                 after_larger |-> call.op = "Apply"
                                  /\ Len(call.batch) > Len(image_batch)]
     /\ fresh' = Observed(ApplyRun(<<>>, NewResizeOp, NewPadOp, image_batch))
     /\ UNCHANGED config

\* ------------------------------------------------------------ input sets

\* Outcomes of an undefined float -> int conversion: the x86 "integer
\* indefinite" value, and the saturating conversions of a NaN and of +inf.
CastUB == {IntMin, 0, IntMax}

\* Edges beyond the exhaustive range, up to camera-sized images.
BigDims == {100, 300, 641, 961, 1000, 2000, 3000}
Dims == (1..MaxDim) \cup BigDims
FnImages == {Image(w, h) : w \in Dims, h \in Dims}

\* <<long_min, short_min>>
ThresholdPairs == {<<960, 640>>, <<96, 64>>, <<64, 32>>, <<7, 3>>, <<3, 7>>,
                   <<20, 20>>}
Bases == {DefaultBase, 5}
MaxSizeLens == {960, 100, 20}
StaticShapes == {<<3, 960, 960>>, <<3, 64, 96>>, <<3, 50, 70>>}

\* Images handed to Apply: with thresholds <<96, 64>> they take the
\* no-upscale branch, both scaling branches in both orientations, and the
\* square tie-break.
ApplyImages == {Image(200, 150), Image(21, 21), Image(300, 40),
                Image(7, 21)}

\* Images and thresholds that violate the preconditions.
FaultImages == {Image(0, 0), Image(0, 10), Image(10, 0), Image(50, 40),
                Image(200, 150)}
FaultThresholdPairs == {<<96, 64>>, <<96, 0>>, <<0, 64>>, <<0, 0>>,
                        <<96, -64>>, <<-96, 64>>}

Batches(S) == UNION {[1..n -> S] : n \in 1..MaxBatch}

PositiveImage(mat) == mat.w > 0 /\ mat.h > 0

\* --------------------------------------------------------- specifications

\* The state after DBDetectorPreprocessor::DBDetectorPreprocessor().
Constructed ==
  /\ batch_det_img_info_ = <<>>
  /\ resize_op_ = NewResizeOp
  /\ pad_op_ = NewPadOp
  /\ mats = <<>>
  /\ trace = <<>>
  /\ outputs = <<>>
  /\ fresh = [ret |-> FALSE]

\* A preprocessor configured before its first call, then Apply on batches
\* of well-formed images. On such inputs every float -> int conversion is
\* in range, so ub_cast is never read.
Init ==
  /\ Constructed
  /\ static_shape_infer_ \in BOOLEAN
  /\ longside_size_ = 96
  /\ shortside_size_ = 64
  /\ det_image_shape_ = <<3, 64, 96>>
  /\ disable_normalize_ \in BOOLEAN
  /\ disable_permute_ \in BOOLEAN
  /\ ub_cast = IntMin
  /\ call = [op |-> "none"]

Next == \E image_batch \in Batches(ApplyImages) : Apply(image_batch)

Spec == Init /\ [][Next]_vars

\* The same preprocessor in the dual-threshold mode, called without regard
\* for the preconditions.
InitFault ==
  /\ Constructed
  /\ static_shape_infer_ = FALSE
  /\ \E t \in FaultThresholdPairs :
        longside_size_ = t[1] /\ shortside_size_ = t[2]
  /\ det_image_shape_ = <<3, 64, 96>>
  /\ disable_normalize_ = FALSE
  /\ disable_permute_ = FALSE
  /\ ub_cast \in CastUB
  /\ call = [op |-> "none"]

NextFault == \E image_batch \in Batches(FaultImages) : Apply(image_batch)

SpecFault == InitFault /\ [][NextFault]_vars

\* The sizing functions called directly, once, on one image; cal_dst_size
\* with the configured thresholds (as OcrDetectorGetInfo calls it) and with
\* either base.
InitFn ==
  /\ Constructed
  /\ static_shape_infer_ \in BOOLEAN
  /\ det_image_shape_ \in StaticShapes
  /\ \E t \in ThresholdPairs :
        longside_size_ = t[1] /\ shortside_size_ = t[2]
  /\ static_shape_infer_ => longside_size_ \in {960, 7}
  /\ ~static_shape_infer_ => det_image_shape_ = <<3, 960, 960>>
  /\ disable_normalize_ = FALSE
  /\ disable_permute_ = FALSE
  /\ ub_cast = IntMin
  /\ \E img \in FnImages : call = [op |-> "none", img |-> img]

Returned(c) ==
  /\ call' = c
  /\ UNCHANGED <<config, batch_det_img_info_, resize_op_, pad_op_, mats,
                 trace, outputs, fresh>>

CallCalDstSize ==
  /\ call.op = "none"
  /\ \E base \in Bases :
       Returned([op |-> "cal_dst_size", src_height |-> call.img.h,
                 src_width |-> call.img.w, long_min |-> longside_size_,
                 short_min |-> shortside_size_, base |-> base,
                 ret |-> cal_dst_size(call.img.h, call.img.w, longside_size_,
                                      shortside_size_, base)])

CallGetInfo ==
  /\ call.op = "none"
  /\ Returned([op |-> "OcrDetectorGetInfo", img |-> call.img,
               ret |-> OcrDetectorGetInfo(call.img)])

CallGetInfoMaxLen ==
  /\ call.op = "none"
  /\ \E max_size_len \in MaxSizeLens :
       Returned([op |-> "OcrDetectorGetInfoMaxLen", img |-> call.img,
                 max_size_len |-> max_size_len,
                 ret |-> OcrDetectorGetInfoMaxLen(call.img, max_size_len)])

NextFn == CallCalDstSize \/ CallGetInfo \/ CallGetInfoMaxLen

SpecFn == InitFn /\ [][NextFn]_vars

\* ------------------------------------------------------------------ claims

Aligned(v, base) == v % base = 0 /\ v >= base

IsGetInfo == call.op \in {"OcrDetectorGetInfo", "OcrDetectorGetInfoMaxLen"}

\* The inputs of a returned cal_dst_size call.
CurLong == Max(call.src_height, call.src_width)
CurShort == Min(call.src_height, call.src_width)
PositiveArgs ==
  /\ call.src_height > 0 /\ call.src_width > 0
  /\ call.long_min > 0 /\ call.short_min > 0
NoUpscale == CurLong > call.long_min /\ CurShort > call.short_min

\* C1 as stated: for every image with positive width and height, every
\* sizing mode (Static with any configured det_image_shape_, the
\* single-threshold overload, cal_dst_size) resolves a target width and
\* height that are multiples of the alignment base and at least the base.
C1_EveryModeAligned ==
  /\ (IsGetInfo /\ PositiveImage(call.img)) =>
        Aligned(call.ret[3], DefaultBase) /\ Aligned(call.ret[4], DefaultBase)
  /\ (call.op = "cal_dst_size" /\ PositiveArgs) =>
        Aligned(call.ret[1], call.base) /\ Aligned(call.ret[2], call.base)

\* C1 amended: for every image with positive width and height, both dynamic
\* modes resolve a target width and height that are multiples of the
\* alignment base and at least the base; in Static mode the target has that
\* property exactly when the configured det_image_shape_ has it.
C1_DynamicModesAligned ==
  /\ (IsGetInfo /\ PositiveImage(call.img) /\ ~static_shape_infer_) =>
        Aligned(call.ret[3], DefaultBase) /\ Aligned(call.ret[4], DefaultBase)
  /\ (call.op = "cal_dst_size" /\ PositiveArgs) =>
        Aligned(call.ret[1], call.base) /\ Aligned(call.ret[2], call.base)
  /\ (IsGetInfo /\ PositiveImage(call.img) /\ static_shape_infer_) =>
        /\ Aligned(call.ret[3], DefaultBase) <=>
             Aligned(StaticWidth, DefaultBase)
        /\ Aligned(call.ret[4], DefaultBase) <=>
             Aligned(StaticHeight, DefaultBase)

\* A scaled, aligned target: cal_dst_size enlarging a 7 x 21 image.
C1_Witness ==
  /\ call.op = "cal_dst_size" /\ call.src_height = 21 /\ call.src_width = 7
  /\ call.long_min = 96 /\ call.short_min = 64 /\ call.base = DefaultBase
  /\ call.ret = <<224, 64>>

\* C4: in Static mode, for any positive input width and height, both
\* OcrDetectorGetInfo overloads return the configured fixed dimensions
\* (width det_image_shape_[2], height det_image_shape_[1] of the source) as
\* the target, whatever the input size and the thresholds, and the original
\* width and height unchanged in the first two fields.
C4_StaticReturnsConfigured ==
  (IsGetInfo /\ static_shape_infer_ /\ PositiveImage(call.img)) =>
     call.ret = <<call.img.w, call.img.h, det_image_shape_[3],
                  det_image_shape_[2]>>

C4_Witness ==
  /\ call.op = "OcrDetectorGetInfo" /\ static_shape_infer_
  /\ det_image_shape_ = <<3, 64, 96>>
  /\ call.img = Image(3000, 2000)
  /\ call.ret = <<3000, 2000, 96, 64>>

\* C5: in the dual-threshold mode, for every input whose long edge exceeds
\* long_min and whose short edge exceeds short_min, cal_dst_size does not
\* scale: each output edge is the corresponding input edge rounded up to the
\* next multiple of base (a multiple of base, not below the input edge and
\* less than base above it); 3000 x 2000 with thresholds 960 and 640 and
\* base 32 gives 3008 x 2016.
C5_NoUpscaleRoundsUp ==
  (call.op = "cal_dst_size" /\ PositiveArgs /\ NoUpscale) =>
     /\ call.ret[1] % call.base = 0
     /\ call.ret[1] >= call.src_height
     /\ call.ret[1] - call.src_height < call.base
     /\ call.ret[2] % call.base = 0
     /\ call.ret[2] >= call.src_width
     /\ call.ret[2] - call.src_width < call.base
     /\ (/\ call.src_height = 3000 /\ call.src_width = 2000
         /\ call.long_min = 960 /\ call.short_min = 640
         /\ call.base = 32) => call.ret = <<3008, 2016>>

C5_Witness ==
  /\ call.op = "cal_dst_size"
  /\ call.src_height = 3000 /\ call.src_width = 2000
  /\ call.long_min = 960 /\ call.short_min = 640 /\ call.base = 32
  /\ NoUpscale
  /\ call.ret = <<3008, 2016>>

\* The reference of claim C9, in exact integer arithmetic.
CeilDiv(a, b) == (a + b - 1) \div b
RoundUpTo(v, base) == Max(CeilDiv(v, base) * base, base)
C9_Reference ==
  LET swap == call.src_width >= call.src_height
      long == IF CurLong * call.short_min > call.long_min * CurShort
              THEN CeilDiv(call.short_min * CurLong, CurShort)
              ELSE call.long_min
      short == IF CurLong * call.short_min > call.long_min * CurShort
               THEN call.short_min
               ELSE CeilDiv(call.long_min * CurShort, CurLong)
  IN <<RoundUpTo(IF swap THEN short ELSE long, call.base),
       RoundUpTo(IF swap THEN long ELSE short, call.base)>>

\* C9: in the dual-threshold mode, outside the no-upscale case, cal_dst_size
\* equals the reference for all positive inputs and thresholds: width-class
\* iff src_width >= src_height; if cur_long/cur_short > long_min/short_min
\* the short edge becomes short_min and the long edge
\* ceil(short_min * cur_long / cur_short), otherwise the long edge becomes
\* long_min and the short edge ceil(long_min * cur_short / cur_long); the
\* long edge goes to the width iff width-class; each edge is then rounded up
\* to a multiple of base and floored at base.
C9_MatchesReference ==
  (call.op = "cal_dst_size" /\ PositiveArgs /\ ~NoUpscale) =>
     call.ret = C9_Reference

\* C10: in the dual-threshold mode with positive inputs and thresholds and
\* long_min >= short_min, the target of cal_dst_size has its larger edge
\* >= long_min and its smaller edge >= short_min, and keeps the orientation
\* of the source: dst_width >= dst_height whenever src_width >= src_height,
\* and dst_height >= dst_width whenever src_height > src_width.
C10_ThresholdsAndOrientation ==
  (/\ call.op = "cal_dst_size" /\ PositiveArgs
   /\ call.long_min >= call.short_min) =>
     /\ Max(call.ret[1], call.ret[2]) >= call.long_min
     /\ Min(call.ret[1], call.ret[2]) >= call.short_min
     /\ call.src_width >= call.src_height => call.ret[2] >= call.ret[1]
     /\ call.src_height > call.src_width => call.ret[1] >= call.ret[2]

\* An Apply call on a non-empty batch of images of positive size.
WellFormedApply ==
  /\ call.op = "Apply"
  /\ Len(call.batch) > 0
  /\ \A i \in 1..Len(call.batch) : PositiveImage(call.batch[i])

\* C2: for any non-empty batch of images with positive dimensions, after
\* Apply the batch maximum is >= every per-image target, and every image of
\* the batch has final width max_resize_w and final height max_resize_h.
C2_UniformBatchShape ==
  WellFormedApply =>
     /\ Len(batch_det_img_info_) = Len(call.batch)
     /\ Len(mats) = Len(call.batch)
     /\ \A i \in 1..Len(call.batch) :
          /\ call.max_resize_w >= batch_det_img_info_[i][3]
          /\ call.max_resize_h >= batch_det_img_info_[i][4]
          /\ mats[i].w = call.max_resize_w
          /\ mats[i].h = call.max_resize_h

\* Two images of different targets, both brought to the common maximum.
C2_Witness ==
  /\ WellFormedApply /\ ~static_shape_infer_
  /\ call.batch = <<Image(200, 150), Image(7, 21)>>
  /\ batch_det_img_info_ = <<<<200, 150, 224, 160>>, <<7, 21, 64, 224>>>>
  /\ mats = <<Image(224, 224), Image(224, 224)>>

\* The preconditions of Apply: positive image sizes, and positive thresholds
\* where the dual-threshold policy is the one in use.
Preconditions ==
  /\ \A i \in 1..Len(call.batch) : PositiveImage(call.batch[i])
  /\ static_shape_infer_ \/ (longside_size_ > 0 /\ shortside_size_ > 0)

\* C3: when a precondition is violated (an image of zero width or height, a non-positive threshold), Apply rejects the call (it does not
\* return success) before the sizing computation runs, and invokes no
\* resize or pad primitive.
C3_RejectsBadInput ==
  (call.op = "Apply" /\ ~Preconditions) =>
     /\ call.ret = FALSE
     /\ trace = <<>>

\* C6: whatever Apply calls came before on the instance, an Apply call
\* yields the per-image infos, batch maximum, resize and pad invocations,
\* image shapes and output shape that the first call on a newly constructed
\* instance yields for the same configuration and batch.
C6_HistoryIndependent ==
  call.op = "Apply" =>
     fresh = [info |-> batch_det_img_info_,
              max_resize_w |-> call.max_resize_w,
              max_resize_h |-> call.max_resize_h,
              mats |-> mats, trace |-> trace, outputs |-> outputs,
              ret |-> call.ret]

\* An Apply call made after one on a larger batch.
C6_Witness ==
  /\ call.op = "Apply" /\ call.after_larger /\ ~static_shape_infer_
  /\ call.batch = <<Image(7, 21)>>
  /\ fresh.info = <<<<7, 21, 64, 224>>>>
  /\ batch_det_img_info_ = fresh.info

NormalizePermuteCalls == {k \in 1..Len(trace) : trace[k].op = "normalize_permute"}

\* C7: the two disable flags act independently: normalization is applied to
\* the batch iff disable_normalize_ is false and the permutation iff
\* disable_permute_ is false; an applied batched step runs once per call and
\* only after every image has been resized and padded.
C7_FlagsIndependent ==
  call.op = "Apply" =>
     /\ (NormalizePermuteCalls # {}) <=> ~disable_normalize_
     /\ (NormalizePermuteCalls # {}) <=> ~disable_permute_
     /\ NormalizePermuteCalls \subseteq {Len(trace)}
     /\ Len(trace) >= 2 * Len(call.batch)

PadCalls == {k \in 1..Len(trace) : trace[k].op = "pad"}

\* C8: in every Apply call on a non-empty batch of positive-sized images,
\* every image is padded once, with top = 0, left = 0,
\* bottom = max_resize_h - resize_h >= 0 and
\* right = max_resize_w - resize_w >= 0: no negative padding is passed to
\* the pad primitive, in either sizing mode Apply uses.
C8_PaddingNonNegative ==
  WellFormedApply =>
     /\ {trace[k].img : k \in PadCalls} = 1..Len(call.batch)
     /\ Cardinality(PadCalls) = Len(call.batch)
     /\ \A k \in PadCalls :
          /\ trace[k].top = 0
          /\ trace[k].left = 0
          /\ trace[k].bottom =
               call.max_resize_h - batch_det_img_info_[trace[k].img][4]
          /\ trace[k].right =
               call.max_resize_w - batch_det_img_info_[trace[k].img][3]
          /\ trace[k].bottom >= 0
          /\ trace[k].right >= 0

\* A batch whose first image is padded below and whose second is padded on
\* the right.
C8_Witness ==
  /\ WellFormedApply
  /\ call.batch = <<Image(200, 150), Image(7, 21)>>
  /\ \E k \in PadCalls : trace[k].img = 1 /\ trace[k].bottom = 64
  /\ \E k \in PadCalls : trace[k].img = 2 /\ trace[k].right = 160

====
